---- MODULE Spec2Model ----
(***************************************************************************)
(* Model of the blog Post Store (src/app.js): the posts table, SQLite's    *)
(* AUTOINCREMENT counter, the wall clock read by datetime('now'), and the  *)
(* five HTTP handlers.  A handler runs in pieces: its synchronous part     *)
(* validates and queues one SQL statement, and each statement's callback   *)
(* answers or queues the next statement.  Every SQL statement is atomic;   *)
(* statements of different requests interleave freely.                     *)
(*                                                                         *)
(* Environment assumptions: the clock never goes backwards; JSON fields    *)
(* title and content are strings or absent (a field of another JSON type   *)
(* makes title?.trim() throw).  In the specifications of the server alone  *)
(* the storage engine does not fail (the `if (err)` branches, answering    *)
(* 500, are not taken).                                                    *)
(*                                                                         *)
(* Three specifications of the server share the handlers and differ in     *)
(* what the environment sends:                                             *)
(*   Spec      one connection, valid payloads, every id, a ticking clock;  *)
(*   SpecText  one connection, every kind of payload and id parameter,     *)
(*             all within one second;                                      *)
(*   SpecRace  two connections whose statements interleave.                *)
(*                                                                         *)
(* The second half models the browser side (src/public/js/model.js and     *)
(* controller.js) talking to these handlers:                               *)
(*   SpecClient    one call in flight at a time, valid and invalid         *)
(*                 payloads; calls may be lost and statements may fail;    *)
(*   SpecEdit      the same with valid payloads and the edit form;         *)
(*   SpecEditFair  SpecEdit in which every call resolves;                  *)
(*   SpecOverlap   two calls in flight, answered in any order;             *)
(*   SpecInit      initialize() called more than once;                     *)
(*   SpecObservers the model's observer list on its own;                   *)
(*   SpecValidate  validatePostData applied to titles and contents.        *)
(***************************************************************************)
EXTENDS Integers, Sequences, FiniteSets, TLC

\* ------------------------------------------------------------------ bounds
MaxId == 2          \* Spec: at most this many rows are ever inserted
MaxTime == 1        \* Spec: the clock takes the values 0..MaxTime
TextMaxId == 1      \* SpecText: at most this many rows are ever inserted
MaxObservers == 3   \* SpecObservers: at most this many observers are registered
ValidateMaxLen == 3 \* SpecValidate: titles are at most this long
InitMaxCalls == 2   \* SpecInit: initialize() is called at most this often before
                    \* it marks the controller initialized
RaceMaxId == 1      \* SpecRace, SpecOverlap: at most this many rows are ever inserted
ClientMaxId == 1    \* SpecClient: at most this many rows are ever inserted

Conns == {"c1", "c2"}   \* connections, each carrying one request at a time

\* ----------------------------------------------------------------- strings
\* A string is a sequence of one-character strings.
WS == {" ", "\n"}

RECURSIVE TrimStart(_)
TrimStart(s) ==
    IF s # <<>> /\ Head(s) \in WS THEN TrimStart(Tail(s)) ELSE s

RECURSIVE TrimEnd(_)
TrimEnd(s) ==
    IF s # <<>> /\ s[Len(s)] \in WS THEN TrimEnd(SubSeq(s, 1, Len(s) - 1)) ELSE s

\* String.prototype.trim
Trim(s) == TrimEnd(TrimStart(s))

\* A JSON field of the request body: absent (undefined/null) or a string.
Undefined == [absent |-> TRUE, s |-> <<>>]
Str(s) == [absent |-> FALSE, s |-> s]

\* x?.trim(): undefined when x is absent
OptTrim(f) == IF f.absent THEN Undefined ELSE Str(Trim(f.s))

\* !v for v undefined or a string
Falsy(f) == f.absent \/ f.s = <<>>

\* a variant that forgets to trim: !title || !content
PayloadRejectedUntrimmed(title, content) == Falsy(title) \/ Falsy(content)

\* !title?.trim() || !content?.trim()
PayloadRejected(title, content) ==
    Falsy(OptTrim(title)) \/ Falsy(OptTrim(content))

\* a variant that binds the fields as received: [title, content]
InsertParamsRaw(title, content) == <<title.s, content.s>>

\* [title.trim(), content.trim()]: the values bound to the statement
InsertParams(title, content) == <<Trim(title.s), Trim(content.s)>>

\* ----------------------------------------------------------------- numbers
Digits == <<"0", "1", "2", "3", "4", "5", "6", "7", "8", "9">>

IsDigit(ch) == \E i \in 1..10 : Digits[i] = ch

DigitVal(ch) == (CHOOSE i \in 1..10 : Digits[i] = ch) - 1

\* Number(req.params.id) for a parameter made of digits: its decimal value
RECURSIVE ToNumber(_)
ToNumber(p) ==
    IF p = <<>> THEN 0
    ELSE 10 * ToNumber(SubSeq(p, 1, Len(p) - 1)) + DigitVal(p[Len(p)])

\* Number.isFinite(Number(p)), for a parameter made of digits and of letters
\* other than e and x: Number(p) is NaN as soon as one character is no digit
IsFiniteId(p) == p # <<>> /\ \A i \in 1..Len(p) : IsDigit(p[i])

\* ------------------------------------------------------------------ inputs
T2 == <<"a", "b">>
T3 == <<"a", " ", "c">>
C9 == <<"n", "i", "n", "e", " ", "c", "h", "a", "r">>
C10 == <<"t", "e", "n", "\n", "c", "h", "a", "r", "s", ".">>
Pad(s) == <<" ">> \o s \o <<"\n", " ">>

Titles == {Undefined, Str(<<" ", " ">>), Str(T2), Str(T3), Str(Pad(T3))}
Contents == {Undefined, Str(<<"\n">>), Str(C9), Str(C10), Str(Pad(C10))}

\* every payload, as <<title, content>>
AllPayloads == Titles \X Contents

\* two valid payloads, differing in both fields
U3 == <<"n", "e", "w">>
D10 == <<"o", "t", "h", "e", "r", " ", "t", "e", "x", "t">>
ValidPayloads == {<<Str(T3), Str(C10)>>, <<Str(U3), Str(D10)>>}

\* the id parameters "0" .. "n"
DigitParams(n) == {<<Digits[k + 1]>> : k \in 0..n}

\* id parameters that are no plain digit
OddParams == {<<"z">>, <<"0", "1">>}

\* ------------------------------------------------------------------- state
VARIABLES
    posts,      \* the posts table: a set of rows
    seq,        \* sqlite_sequence: the largest rowid ever inserted
    now,        \* the clock datetime('now') reads
    req,        \* per connection: the request being handled
    pc,         \* per connection: where its handler stands
    res,        \* per connection: the response sent
    issued,     \* history: every id an INSERT was assigned
    deleted,    \* history: every id a DELETE answered 200 for
    origin,     \* history: for each row not updated since its insertion, the
                \* id with the title and content of the request that made it
    cache,      \* BlogModel.posts: the client's copy of the list
    isLoading,  \* BlogModel.isLoading
    observers,  \* BlogModel.observers
    viewObservers,  \* the observers registered on the view
    isInitialized,  \* BlogController.isInitialized
    calls,      \* the fetch calls in flight, oldest first
    emitted,    \* what the client's last run emitted, in order
    failed,     \* history: some fetch call did not end in success
    loadingIndicator  \* the view's loadingIndicator.style.display

vars == <<posts, seq, now, req, pc, res, issued, deleted, origin,
          cache, isLoading, observers, viewObservers, isInitialized, calls,
          emitted, failed, loadingIndicator>>

clientVars ==
    <<cache, isLoading, observers, viewObservers, isInitialized, calls,
      emitted, failed, loadingIndicator>>

Row(id, title, content, created, updated) ==
    [id |-> id, title |-> title, content |-> content,
     created_at |-> created, updated_at |-> updated]

NoRequest ==
    [method |-> "NONE", id |-> <<>>, title |-> Undefined, content |-> Undefined,
     lastID |-> 0]

Request(method, id, title, content) ==
    [method |-> method, id |-> id, title |-> title, content |-> content,
     lastID |-> 0]

NoResponse == [status |-> 0, kind |-> "none", error |-> "", rows |-> <<>>]

\* res.status(code).json({ error: msg })
JsonError(code, msg) ==
    [status |-> code, kind |-> "error", error |-> msg, rows |-> <<>>]

\* res.status(code).json(row); row is the result of db.get: <<>> is undefined
JsonRow(code, result) ==
    [status |-> code, kind |-> "row", error |-> "", rows |-> result]

\* res.json(rows)
JsonRows(rows) == [status |-> 200, kind |-> "rows", error |-> "", rows |-> rows]

\* res.json({ success: true })
JsonSuccess == [status |-> 200, kind |-> "success", error |-> "", rows |-> <<>>]

\* --------------------------------------------------------------------- SQL
MaxOf(S) == CHOOSE x \in S : \A y \in S : y <= x

Ids(table) == {r.id : r \in table}

\* a variant that sorts the other way: ORDER BY id ASC
RECURSIVE OrderByIdAsc(_)
OrderByIdAsc(table) ==
    IF table = {} THEN <<>>
    ELSE LET low == CHOOSE r \in table : \A q \in table : r.id <= q.id
         IN  <<low>> \o OrderByIdAsc(table \ {low})

\* ORDER BY id DESC
RECURSIVE OrderByIdDesc(_)
OrderByIdDesc(table) ==
    IF table = {} THEN <<>>
    ELSE LET top == CHOOSE r \in table : \A q \in table : q.id <= r.id
         IN  <<top>> \o OrderByIdDesc(table \ {top})

\* SELECT * FROM posts ORDER BY id DESC
SelectAll == OrderByIdDesc(posts)

\* SELECT * FROM posts WHERE id = ?  (db.get: the first row, or none)
SelectById(id) ==
    LET hit == {r \in posts : r.id = id}
    IN  IF hit = {} THEN <<>> ELSE <<CHOOSE r \in hit : TRUE>>

\* a variant without AUTOINCREMENT: one more than the largest rowid in the table
NextRowidReusing == MaxOf({0} \cup Ids(posts)) + 1

\* INTEGER PRIMARY KEY AUTOINCREMENT: one more than the largest rowid the
\* table has ever held
NextRowid == MaxOf({seq} \cup Ids(posts)) + 1

\* INSERT INTO posts (title, content) VALUES (?, ?), with both timestamp
\* columns taking their default datetime('now')
InsertRow(title, content) == Row(NextRowid, title, content, now, now)

\* a variant that has no WHERE clause
UpdateRowsEverywhere(title, content, id) ==
    {[r EXCEPT !.title = title, !.content = content, !.updated_at = now] :
        r \in posts}

\* a variant that inserts the row when none matches (INSERT OR REPLACE)
UpdateRowsUpsert(title, content, id) ==
    IF \E r \in posts : r.id = id
      THEN {IF r.id = id
              THEN [r EXCEPT !.title = title, !.content = content,
                             !.updated_at = now]
              ELSE r : r \in posts}
      ELSE posts \cup {Row(id, title, content, now, now)}

\* a variant that sets the title and keeps the stored content
UpdateRowsTitleOnly(title, content, id) ==
    {IF r.id = id
       THEN [r EXCEPT !.title = title, !.updated_at = now]
       ELSE r : r \in posts}

\* a variant that also stamps created_at
UpdateRowsRestamp(title, content, id) ==
    {IF r.id = id
       THEN [r EXCEPT !.title = title, !.content = content,
                      !.created_at = now, !.updated_at = now]
       ELSE r : r \in posts}

\* UPDATE posts SET title = ?, content = ?, updated_at = datetime('now')
\* WHERE id = ?
UpdateRows(title, content, id) ==
    {IF r.id = id
       THEN [r EXCEPT !.title = title, !.content = content, !.updated_at = now]
       ELSE r : r \in posts}

\* this.changes of the UPDATE or DELETE
Changes(id) == Cardinality({r \in posts : r.id = id})

\* DELETE FROM posts WHERE id = ?
DeleteRows(id) == {r \in posts : r.id # id}

\* -------------------------------------------------------------------- Init
Init ==
    /\ posts = {}
    /\ seq = 0
    /\ now = 0
    /\ req = [c \in Conns |-> NoRequest]
    /\ pc = [c \in Conns |-> "idle"]
    /\ res = [c \in Conns |-> NoResponse]
    /\ issued = {}
    /\ deleted = {}
    /\ origin = {}
    /\ cache = <<>>
    /\ isLoading = FALSE
    /\ observers = <<>>
    /\ viewObservers = <<>>
    /\ isInitialized = FALSE
    /\ calls = <<>>
    /\ emitted = <<>>
    /\ failed = FALSE
    /\ loadingIndicator = ""

Free(c) == pc[c] \in {"idle", "done"}

dbVars == <<posts, seq, issued, deleted, origin>>

\* The handler's synchronous part answered.
Answer(c, r, response) ==
    /\ req' = [req EXCEPT ![c] = r]
    /\ pc' = [pc EXCEPT ![c] = "done"]
    /\ res' = [res EXCEPT ![c] = response]

\* The handler's synchronous part queued a statement.
Queue(c, r, stmt) ==
    /\ req' = [req EXCEPT ![c] = r]
    /\ pc' = [pc EXCEPT ![c] = stmt]
    /\ res' = [res EXCEPT ![c] = NoResponse]

\* A statement's callback answered.
Respond(c, response) ==
    /\ pc' = [pc EXCEPT ![c] = "done"]
    /\ res' = [res EXCEPT ![c] = response]
    /\ UNCHANGED req

\* ---------------------------------------------------------------- handlers
\* app.get('/api/posts'): queue db.all
GetAll(c) ==
    /\ Free(c)
    /\ Queue(c, Request("LIST", <<>>, Undefined, Undefined), "all")
    /\ UNCHANGED <<dbVars, now>>

\* db.all callback
GetAllDone(c) ==
    /\ pc[c] = "all"
    /\ Respond(c, JsonRows(SelectAll))
    /\ UNCHANGED <<dbVars, now>>

\* app.get('/api/posts/:id')
GetById(c, id) ==
    /\ Free(c)
    /\ LET r == Request("GET", id, Undefined, Undefined)
       IN  IF ~IsFiniteId(id)
             THEN Answer(c, r, JsonError(400, "Invalid id"))
             ELSE Queue(c, r, "get")
    /\ UNCHANGED <<dbVars, now>>

\* db.get callback of GET by id
GetByIdDone(c) ==
    /\ pc[c] = "get"
    /\ LET row == SelectById(ToNumber(req[c].id))
       IN  IF row = <<>>
             THEN Respond(c, JsonError(404, "Not found"))
             ELSE Respond(c, JsonRow(200, row))
    /\ UNCHANGED <<dbVars, now>>

\* app.post('/api/posts')
Create(c, title, content) ==
    /\ Free(c)
    /\ LET r == Request("POST", <<>>, title, content)
       IN  IF PayloadRejected(title, content)
             THEN Answer(c, r, JsonError(400, "Title and content required"))
             ELSE Queue(c, r, "insert")
    /\ UNCHANGED <<dbVars, now>>

\* the INSERT and its callback, which queues the re-read by this.lastID
CreateInsert(c) ==
    /\ pc[c] = "insert"
    /\ LET args == InsertParams(req[c].title, req[c].content)
           row == InsertRow(args[1], args[2])
       IN  /\ posts' = posts \cup {row}
           /\ seq' = row.id
           /\ issued' = issued \cup {row.id}
           /\ origin' = origin \cup
                  {[id |-> row.id, title |-> req[c].title.s,
                    content |-> req[c].content.s]}
           /\ req' = [req EXCEPT ![c].lastID = row.id]
    /\ pc' = [pc EXCEPT ![c] = "reread"]
    /\ UNCHANGED <<now, res, deleted>>

\* the re-read's callback of POST: 201 with the row
CreateDone(c) ==
    /\ pc[c] = "reread"
    /\ req[c].method = "POST"
    /\ Respond(c, JsonRow(201, SelectById(req[c].lastID)))
    /\ UNCHANGED <<dbVars, now>>

\* a variant that looks at the payload before the id
UpdatePayloadFirst(c, id, title, content) ==
    /\ Free(c)
    /\ LET r == Request("PUT", id, title, content)
       IN  IF PayloadRejected(title, content)
             THEN Answer(c, r, JsonError(400, "Title and content required"))
             ELSE IF ~IsFiniteId(id)
                    THEN Answer(c, r, JsonError(400, "Invalid id"))
                    ELSE Queue(c, r, "update")
    /\ UNCHANGED <<dbVars, now>>

\* app.put('/api/posts/:id')
Update(c, id, title, content) ==
    /\ Free(c)
    /\ LET r == Request("PUT", id, title, content)
       IN  IF ~IsFiniteId(id)
             THEN Answer(c, r, JsonError(400, "Invalid id"))
             ELSE IF PayloadRejected(title, content)
                    THEN Answer(c, r, JsonError(400, "Title and content required"))
                    ELSE Queue(c, r, "update")
    /\ UNCHANGED <<dbVars, now>>

\* the UPDATE and its callback: 404 when no row changed, else queue the re-read
UpdateRun(c) ==
    /\ pc[c] = "update"
    /\ LET id == ToNumber(req[c].id)
           args == InsertParams(req[c].title, req[c].content)
       IN  /\ posts' = UpdateRows(args[1], args[2], id)
           /\ IF Changes(id) = 0
                THEN /\ Respond(c, JsonError(404, "Not found"))
                     /\ UNCHANGED origin
                ELSE /\ pc' = [pc EXCEPT ![c] = "reread"]
                     /\ origin' = {o \in origin : o.id # id}
                     /\ UNCHANGED <<req, res>>
    /\ UNCHANGED <<seq, now, issued, deleted>>

\* the re-read's callback of PUT: 200 with the row
UpdateDone(c) ==
    /\ pc[c] = "reread"
    /\ req[c].method = "PUT"
    /\ Respond(c, JsonRow(200, SelectById(ToNumber(req[c].id))))
    /\ UNCHANGED <<dbVars, now>>

\* app.delete('/api/posts/:id')
Delete(c, id) ==
    /\ Free(c)
    /\ LET r == Request("DELETE", id, Undefined, Undefined)
       IN  IF ~IsFiniteId(id)
             THEN Answer(c, r, JsonError(400, "Invalid id"))
             ELSE Queue(c, r, "delete")
    /\ UNCHANGED <<dbVars, now>>

\* the DELETE and its callback
DeleteRun(c) ==
    /\ pc[c] = "delete"
    /\ LET id == ToNumber(req[c].id)
       IN  /\ posts' = DeleteRows(id)
           /\ IF Changes(id) = 0
                THEN /\ Respond(c, JsonError(404, "Not found"))
                     /\ UNCHANGED <<deleted, origin>>
                ELSE /\ Respond(c, JsonSuccess)
                     /\ deleted' = deleted \cup {id}
                     /\ origin' = {o \in origin : o.id # id}
    /\ UNCHANGED <<seq, now, issued>>

\* time passes
Tick ==
    /\ now < MaxTime
    /\ now' = now + 1
    /\ UNCHANGED <<dbVars, req, pc, res, clientVars>>

\* rows inserted, or about to be: the cap on Create keeps ids within bounds
Inserts == seq + Cardinality({d \in Conns : pc[d] = "insert"})

\* a Create that would insert is sent only while fewer than cap rows were
WithinCap(p, cap) == PayloadRejected(p[1], p[2]) \/ Inserts < cap

\* the requests connections C send, with id parameters I and payloads P, of
\* which at most cap insert a row
Requests(C, I, P, cap) ==
    \/ \E c \in C : GetAll(c) /\ UNCHANGED clientVars
    \/ \E c \in C, id \in I : GetById(c, id) /\ UNCHANGED clientVars
    \/ \E c \in C, p \in P :
           WithinCap(p, cap) /\ Create(c, p[1], p[2]) /\ UNCHANGED clientVars
    \/ \E c \in C, id \in I, p \in P :
           Update(c, id, p[1], p[2]) /\ UNCHANGED clientVars
    \/ \E c \in C, id \in I : Delete(c, id) /\ UNCHANGED clientVars

\* the statements' callbacks
Callbacks ==
    \/ \E c \in Conns : GetAllDone(c) /\ UNCHANGED clientVars
    \/ \E c \in Conns : GetByIdDone(c) /\ UNCHANGED clientVars
    \/ \E c \in Conns : CreateInsert(c) /\ UNCHANGED clientVars
    \/ \E c \in Conns : CreateDone(c) /\ UNCHANGED clientVars
    \/ \E c \in Conns : UpdateRun(c) /\ UNCHANGED clientVars
    \/ \E c \in Conns : UpdateDone(c) /\ UNCHANGED clientVars
    \/ \E c \in Conns : DeleteRun(c) /\ UNCHANGED clientVars

Next ==
    \/ Requests({"c1"}, DigitParams(MaxId + 1), ValidPayloads, MaxId)
    \/ Callbacks
    \/ Tick

Spec == Init /\ [][Next]_vars

NextText ==
    \/ Requests({"c1"}, DigitParams(TextMaxId) \cup OddParams, AllPayloads, TextMaxId)
    \/ Callbacks

SpecText == Init /\ [][NextText]_vars

NextRace ==
    \/ Requests(Conns, DigitParams(RaceMaxId), ValidPayloads, RaceMaxId)
    \/ Callbacks

SpecRace == Init /\ [][NextRace]_vars

\* ------------------------------------------------------------------ client
\* The browser side: BlogModel (src/public/js/model.js) and BlogController
\* (src/public/js/controller.js).  JavaScript runs one piece of code to
\* completion at a time, so an action is one such run: a view event with
\* everything it calls up to the fetch, or the rest of an operation after its
\* fetch settled, with the handlers the notifications invoke and the
\* continuation of the controller method awaiting the operation.  The view is
\* a collaborator whose methods return normally; its calls are only recorded.

\* error messages: the parts joined by '. ', and the status of a message of
\* the form `... (HTTP ${status})`
NoMsg == [parts |-> <<>>, status |-> 0]
Message(text) == [parts |-> <<text>>, status |-> 0]
Joined(errors) == [parts |-> errors, status |-> 0]
HttpMessage(text, status) == [parts |-> <<text>>, status |-> status]

\* what an event carries
NoData ==
    [msg |-> NoMsg, rows |-> <<>>, id |-> 0, on |-> FALSE, param |-> <<>>,
     title |-> Undefined, content |-> Undefined]
Text(msg) == [NoData EXCEPT !.msg = msg]
Rows(rows) == [NoData EXCEPT !.rows = rows]
Num(id) == [NoData EXCEPT !.id = id]
Flag(loading) == [NoData EXCEPT !.on = loading]

\* what a view event carries: the post id as the page holds it, and postData
Form(postId, title, content) ==
    [NoData EXCEPT !.param = postId, !.title = title, !.content = content]

\* encodeURIComponent(id) for a number 0..9
ToParam(id) == <<Digits[id + 1]>>

\* fetch rejected: the request or its response was lost
NetworkError ==
    [status |-> 0, kind |-> "failed", error |-> "Failed to fetch", rows |-> <<>>]

\* response.ok
Ok(r) == r.status \in 200..299

\* the client during a run: the model's fields, the calls in flight, what the
\* run emitted so far, the cache operation executing and the error it threw
Running ==
    [posts |-> cache, isLoading |-> isLoading, observers |-> observers,
     calls |-> calls, log |-> <<>>, op |-> "", raised |-> NoMsg]

\* record an emission of the operation executing
Note(m, ev, data) ==
    [m EXCEPT !.log = Append(@, [ev |-> ev, op |-> m.op, to |-> "",
                                 data |-> data])]

\* BlogModel.addObserver
addObserver(m, observer) == [m EXCEPT !.observers = Append(@, observer)]

\* BlogModel.removeObserver
removeObserver(m, observer) ==
    [m EXCEPT !.observers = SelectSeq(@, LAMBDA obs : obs # observer)]

RECURSIVE notifyObservers(_, _, _)

\* BlogModel.setLoading
setLoading(m, loading) ==
    notifyObservers([m EXCEPT !.isLoading = loading], "onLoadingChange",
                    Flag(loading))

\* a variant that measures the fields as given, without trim()
validatePostDataUntrimmed(title, content) ==
    (IF Falsy(title)
       THEN <<"Title is required">>
       ELSE IF Len(title.s) < 3
              THEN <<"Title must be at least 3 characters long">>
              ELSE <<>>)
    \o
    (IF Falsy(content)
       THEN <<"Content is required">>
       ELSE IF Len(content.s) < 10
              THEN <<"Content must be at least 10 characters long">>
              ELSE <<>>)

\* BlogModel.validatePostData
validatePostData(title, content) ==
    (IF Falsy(title) \/ Len(Trim(title.s)) = 0
       THEN <<"Title is required">>
       ELSE IF Len(Trim(title.s)) < 3
              THEN <<"Title must be at least 3 characters long">>
              ELSE <<>>)
    \o
    (IF Falsy(content) \/ Len(Trim(content.s)) = 0
       THEN <<"Content is required">>
       ELSE IF Len(Trim(content.s)) < 10
              THEN <<"Content must be at least 10 characters long">>
              ELSE <<>>)

\* a fetch call: the operation that made it, its id and payload, the
\* controller method awaiting BlogController.loadPosts, and the connection
\* that carries it once the request reached the server
Call(op, id, title, content, awaiter) ==
    [op |-> op, id |-> id, title |-> title, content |-> content,
     awaiter |-> awaiter, conn |-> ""]

\* await fetch(...): the call leaves and the operation waits for it
Fetch(m, call) ==
    [Note(m, "fetch", NoData) EXCEPT !.calls = Append(@, call)]

\* a variant that throws without telling the observers
CatchSilently(m, msg) == [m EXCEPT !.raised = msg]

\* catch (error): notify onError with error.message, then throw error
Catch(m, msg) ==
    [notifyObservers(m, "onError", Text(msg)) EXCEPT !.raised = msg]

\* the operation's promise settles: it returns or throws to its caller
Settled(m, caller) ==
    [Note(m, IF m.raised = NoMsg THEN "return" ELSE "throw", Text(m.raised))
        EXCEPT !.op = caller.op]

\* message = errBody.error when the body is JSON with a truthy error
ErrorOf(r, generic) ==
    IF r.kind = "error" /\ r.error # "" THEN Message(r.error) ELSE generic

\* a variant that issues the call before it raises the flag
loadPostsFetchFirst(m, awaiter) ==
    LET a == Fetch([m EXCEPT !.op = "loadPosts"],
                   Call("loadPosts", 0, Undefined, Undefined, awaiter))
        b == setLoading(a, TRUE)
        c == notifyObservers(b, "onLoadingStart", NoData)
    IN  [c EXCEPT !.op = m.op]

\* BlogModel.loadPosts up to its fetch
loadPosts(m, awaiter) ==
    LET a == setLoading([m EXCEPT !.op = "loadPosts"], TRUE)
        b == notifyObservers(a, "onLoadingStart", NoData)
        c == Fetch(b, Call("loadPosts", 0, Undefined, Undefined, awaiter))
    IN  [c EXCEPT !.op = m.op]

\* a variant that emits onLoadingEnd on the success path only
loadPostsResumedEndOnSuccess(m, r) ==
    LET own == [m EXCEPT !.op = "loadPosts"]
    IN  IF r.kind = "failed" \/ ~Ok(r)
          THEN Settled(setLoading(
                           Catch(own, HttpMessage("Failed to load posts", r.status)),
                           FALSE), m)
          ELSE Settled(notifyObservers(
                           setLoading(
                               notifyObservers([own EXCEPT !.posts = r.rows],
                                               "onPostsLoaded", Rows(r.rows)),
                               FALSE),
                           "onLoadingEnd", NoData), m)

\* BlogModel.loadPosts from its fetch on
loadPostsResumed(m, r) ==
    LET own == [m EXCEPT !.op = "loadPosts"]
        tried ==
            IF r.kind = "failed" THEN Catch(own, Message(r.error))
            ELSE IF ~Ok(r)
              THEN Catch(own, HttpMessage("Failed to load posts", r.status))
              ELSE notifyObservers([own EXCEPT !.posts = r.rows],
                                   "onPostsLoaded", Rows(r.rows))
        final == notifyObservers(setLoading(tried, FALSE), "onLoadingEnd", NoData)
    IN  Settled(final, m)

\* a variant that puts the post into the list before the server confirmed it
createPostOptimistic(m, title, content) ==
    LET a == setLoading([m EXCEPT !.op = "createPost"], TRUE)
        errors == validatePostData(title, content)
        b == [a EXCEPT !.posts = <<Row(0, title.s, content.s, 0, 0)>> \o @]
    IN  IF errors # <<>>
          THEN Settled(setLoading(Catch(b, Joined(errors)), FALSE), m)
          ELSE [Fetch(b, Call("createPost", 0, title, content, ""))
                   EXCEPT !.op = m.op]

\* a variant that sends the post without validating it
createPostUnvalidated(m, title, content) ==
    LET a == setLoading([m EXCEPT !.op = "createPost"], TRUE)
    IN  [Fetch(a, Call("createPost", 0, title, content, "")) EXCEPT !.op = m.op]

\* BlogModel.createPost up to its fetch
createPost(m, title, content) ==
    LET a == setLoading([m EXCEPT !.op = "createPost"], TRUE)
        errors == validatePostData(title, content)
    IN  IF errors # <<>>
          THEN Settled(setLoading(Catch(a, Joined(errors)), FALSE), m)
          ELSE [Fetch(a, Call("createPost", 0, title, content, ""))
                   EXCEPT !.op = m.op]

\* BlogModel.createPost from its fetch on; response.json() of an empty body
\* throws
createPostResumed(m, r) ==
    LET own == [m EXCEPT !.op = "createPost"]
        tried ==
            IF r.kind = "failed" THEN Catch(own, Message(r.error))
            ELSE IF ~Ok(r)
              THEN Catch(own, ErrorOf(r, HttpMessage("Failed to create post",
                                                     r.status)))
            ELSE IF r.rows = <<>>
              THEN Catch(own, Message("Unexpected end of JSON input"))
              ELSE notifyObservers([own EXCEPT !.posts = r.rows \o @],
                                   "onPostCreated", Rows(r.rows))
    IN  Settled(setLoading(tried, FALSE), m)

\* BlogModel.updatePost up to its fetch
updatePost(m, postId, title, content) ==
    LET a == setLoading([m EXCEPT !.op = "updatePost"], TRUE)
        errors == validatePostData(title, content)
    IN  IF ~IsFiniteId(postId)
          THEN Settled(setLoading(Catch(a, Message("Invalid post id")), FALSE), m)
        ELSE IF errors # <<>>
          THEN Settled(setLoading(Catch(a, Joined(errors)), FALSE), m)
          ELSE [Fetch(a, Call("updatePost", ToNumber(postId), title, content, ""))
                   EXCEPT !.op = m.op]

\* this.posts.findIndex((p) => Number(p.id) === id), counting from 1; 0 is -1
FindIndex(list, id) ==
    IF \E i \in 1..Len(list) : list[i].id = id
      THEN CHOOSE i \in 1..Len(list) :
               /\ list[i].id = id
               /\ \A j \in 1..(i - 1) : list[j].id # id
      ELSE 0

\* a variant that adds the returned post when the list has none with the id
updatePostResumedAdding(m, id, r) ==
    LET own == [m EXCEPT !.op = "updatePost"]
        idx == FindIndex(m.posts, id)
        tried ==
            IF r.kind = "failed" THEN Catch(own, Message(r.error))
            ELSE IF ~Ok(r)
              THEN Catch(own, ErrorOf(r, HttpMessage("Failed to update post",
                                                     r.status)))
            ELSE IF r.rows = <<>>
              THEN Catch(own, Message("Unexpected end of JSON input"))
              ELSE notifyObservers(
                       IF idx # 0
                         THEN [own EXCEPT !.posts = [@ EXCEPT ![idx] = r.rows[1]]]
                         ELSE [own EXCEPT !.posts = r.rows \o @],
                       "onPostUpdated", Rows(r.rows))
    IN  Settled(setLoading(tried, FALSE), m)

\* BlogModel.updatePost from its fetch on
updatePostResumed(m, id, r) ==
    LET own == [m EXCEPT !.op = "updatePost"]
        idx == FindIndex(m.posts, id)
        tried ==
            IF r.kind = "failed" THEN Catch(own, Message(r.error))
            ELSE IF ~Ok(r)
              THEN Catch(own, ErrorOf(r, HttpMessage("Failed to update post",
                                                     r.status)))
            ELSE IF r.rows = <<>>
              THEN Catch(own, Message("Unexpected end of JSON input"))
              ELSE notifyObservers(
                       IF idx # 0
                         THEN [own EXCEPT !.posts = [@ EXCEPT ![idx] = r.rows[1]]]
                         ELSE own,
                       "onPostUpdated", Rows(r.rows))
    IN  Settled(setLoading(tried, FALSE), m)

\* BlogModel.deletePost up to its fetch
deletePost(m, postId) ==
    LET a == setLoading([m EXCEPT !.op = "deletePost"], TRUE)
    IN  IF ~IsFiniteId(postId)
          THEN Settled(setLoading(Catch(a, Message("Invalid post id")), FALSE), m)
          ELSE [Fetch(a, Call("deletePost", ToNumber(postId), Undefined,
                              Undefined, ""))
                   EXCEPT !.op = m.op]

\* this.posts.filter((p) => Number(p.id) !== id)
Without(list, id) == SelectSeq(list, LAMBDA p : p.id # id)

\* BlogModel.deletePost from its fetch on
deletePostResumed(m, id, r) ==
    LET own == [m EXCEPT !.op = "deletePost"]
        tried ==
            IF r.kind = "failed" THEN Catch(own, Message(r.error))
            ELSE IF ~Ok(r) /\ r.status # 204
              THEN Catch(own, ErrorOf(r, HttpMessage("Failed to delete post",
                                                     r.status)))
              ELSE notifyObservers([own EXCEPT !.posts = Without(@, id)],
                                   "onPostDeleted", Num(id))
    IN  Settled(setLoading(tried, FALSE), m)

\* BlogController.loadPosts up to `await this.model.loadPosts()`
ControllerLoadPosts(m, awaiter) == loadPosts(m, awaiter)

\* a variant that loads again when the load failed
ControllerLoadPostsResumedRetrying(m, r) ==
    LET a == loadPostsResumed(m, r)
    IN  IF a.raised = NoMsg
          THEN a
          ELSE ControllerLoadPosts([a EXCEPT !.raised = NoMsg], "")

\* BlogController.loadPosts from the await on: the catch shows an error
ControllerLoadPostsResumed(m, r) ==
    LET a == loadPostsResumed(m, r)
    IN  IF a.raised = NoMsg
          THEN a
          ELSE Note(a, "view.showError",
                    Text(Message("Failed to load blog posts. Please try again.")))

\* BlogController.handlePostsLoaded
handlePostsLoaded(m, data) == Note(m, "view.renderPosts", data)

\* a variant that trusts the created post and loads nothing
handlePostCreatedNoReload(m, data) == Note(m, "view.clearForm", NoData)

\* BlogController.handlePostCreated
handlePostCreated(m, data) ==
    ControllerLoadPosts(Note(m, "view.clearForm", NoData), "")

\* BlogController.handlePostUpdated
handlePostUpdated(m, data) ==
    ControllerLoadPosts(Note(m, "view.clearForm", NoData), "")

\* a variant that trusts the patched copy and loads nothing
handlePostDeletedNoReload(m, data) == Note(m, "view.clearForm", NoData)

\* BlogController.handlePostDeleted
handlePostDeleted(m, data) ==
    ControllerLoadPosts(Note(m, "view.clearForm", NoData), "")

\* BlogController.handleLoadingStart
handleLoadingStart(m, data) == Note(m, "view.showLoading", NoData)

\* a variant that leaves the indicator as it is
handleLoadingEndKeeping(m, data) == m

\* BlogController.handleLoadingEnd
handleLoadingEnd(m, data) == Note(m, "view.hideLoading", NoData)

\* a variant that leaves the display of errors to the intent handlers
handleErrorQuiet(m, data) == m

\* BlogController.handleError
handleError(m, data) ==
    IF data.msg # NoMsg THEN Note(m, "view.showError", data) ELSE m

\* observer[event](data) for the observer setupModelObservers registers;
\* it has no method for any other event
Observe(m, event, data) ==
    CASE event = "onPostsLoaded" -> handlePostsLoaded(m, data)
      [] event = "onPostCreated" -> handlePostCreated(m, data)
      [] event = "onPostUpdated" -> handlePostUpdated(m, data)
      [] event = "onPostDeleted" -> handlePostDeleted(m, data)
      [] event = "onError" -> handleError(m, data)
      [] event = "onLoadingStart" -> handleLoadingStart(m, data)
      [] event = "onLoadingEnd" -> handleLoadingEnd(m, data)
      [] OTHER -> m

\* observers other than the controller's: the methods each one has
Implements ==
    [logger |-> {"onError", "onLoadingChange", "onPostDeleted"},
     badge |-> {"onLoadingChange"},
     idle |-> {}]

Listeners == DOMAIN Implements

\* observer[event](data) of such an observer: the call is recorded
Deliver(m, observer, event, data) ==
    [m EXCEPT !.log = Append(@, [ev |-> event, op |-> m.op, to |-> observer,
                                 data |-> data])]

\* if (typeof observer[event] === 'function') observer[event](data)
Invoke(m, observer, event, data) ==
    IF observer = "controller" THEN Observe(m, event, data)
    ELSE IF event \in Implements[observer] THEN Deliver(m, observer, event, data)
    ELSE m

\* a variant that stops at the first observer that has the method
RECURSIVE ForEachUntilHandled(_, _, _, _)
ForEachUntilHandled(m, i, event, data) ==
    IF i > Len(m.observers)
      THEN m
      ELSE IF Invoke(m, m.observers[i], event, data) # m
             THEN Invoke(m, m.observers[i], event, data)
             ELSE ForEachUntilHandled(m, i + 1, event, data)

\* this.observers.forEach(...), from the i-th observer on
RECURSIVE ForEach(_, _, _, _)
ForEach(m, i, event, data) ==
    IF i > Len(m.observers)
      THEN m
      ELSE ForEach(Invoke(m, m.observers[i], event, data), i + 1, event, data)

\* BlogModel.notifyObservers
notifyObservers(m, event, data) == ForEach(Note(m, event, data), 1, event, data)

\* a variant that confirms success whatever the operation did
ShownRegardless(m, success) == Note(m, "view.showSuccess", Text(Message(success)))

\* after `await this.model.xxxPost(...)`: showSuccess, or the catch's
\* showError(error.message)
Shown(m, success) ==
    IF m.raised = NoMsg
      THEN Note(m, "view.showSuccess", Text(Message(success)))
      ELSE Note(m, "view.showError", Text(m.raised))

\* BlogController.handlePostCreate up to the await, and past it when
\* createPost threw before its fetch
handlePostCreate(m, title, content) ==
    LET a == createPost(m, title, content)
    IN  IF a.raised = NoMsg THEN a ELSE Shown(a, "")

\* BlogController.handlePostCreate from the await on
handlePostCreateResumed(m, r) ==
    Shown(createPostResumed(m, r), "Post created successfully!")

\* BlogController.handlePostUpdate, for updateData with an id
handlePostUpdate(m, id, title, content) ==
    LET a == updatePost(m, id, title, content)
    IN  IF a.raised = NoMsg THEN a ELSE Shown(a, "")

\* BlogController.handlePostUpdate from the await on
handlePostUpdateResumed(m, id, r) ==
    Shown(updatePostResumed(m, id, r), "Post updated successfully!")

\* BlogController.handlePostDelete, for a postId that is not null
handlePostDelete(m, postId) ==
    LET a == deletePost(m, postId)
    IN  IF a.raised = NoMsg THEN a ELSE Shown(a, "")

\* BlogController.handlePostDelete from the await on
handlePostDeleteResumed(m, id, r) ==
    Shown(deletePostResumed(m, id, r), "Post deleted successfully!")

\* BlogModel.getPostById: this.posts.find(...), <<>> for undefined; no post
\* has the id NaN
getPostById(list, postId) ==
    IF IsFiniteId(postId) /\ FindIndex(list, ToNumber(postId)) # 0
      THEN <<list[FindIndex(list, ToNumber(postId))]>>
      ELSE <<>>

\* a variant that opens the edit form whether or not the post was found
handlePostEditAnyway(m, postId) ==
    Note(m, "view.showEditForm", Rows(getPostById(m.posts, postId)))

\* BlogController.handlePostEdit, for a postId that is not null
handlePostEdit(m, postId) ==
    LET post == getPostById(m.posts, postId)
    IN  IF post = <<>>
          THEN Note(m, "view.showError", Text(Message("Post not found.")))
          ELSE Note(m, "view.showEditForm", Rows(post))

\* observer[event](data) for the observer setupViewObservers registers
ViewObserve(m, event, postId, title, content) ==
    LET fresh == [m EXCEPT !.raised = NoMsg]
    IN  CASE event = "onPostCreate" -> handlePostCreate(fresh, title, content)
          [] event = "onPostUpdate" ->
                 handlePostUpdate(fresh, postId, title, content)
          [] event = "onPostDelete" -> handlePostDelete(fresh, postId)
          [] event = "onPostEdit" -> handlePostEdit(fresh, postId)
          [] OTHER -> m

\* the view's this.observers.forEach(...), from the i-th observer on
RECURSIVE ViewForEach(_, _, _, _, _, _)
ViewForEach(m, i, event, postId, title, content) ==
    IF i > Len(viewObservers)
      THEN m
      ELSE ViewForEach(ViewObserve(m, event, postId, title, content), i + 1,
                       event, postId, title, content)

\* BlogView.notifyObservers
ViewNotify(event, postId, title, content) ==
    ViewForEach(Note(Running, event, Form(postId, title, content)), 1, event,
                postId, title, content)

serverVars == <<posts, seq, now, req, pc, res, issued, deleted, origin>>

\* BlogView.showLoading sets the indicator's display to 'block', hideLoading
\* to 'none': the display after the calls of log
Display(log, before) ==
    LET told == {i \in 1..Len(log) :
                    log[i].ev \in {"view.showLoading", "view.hideLoading"}}
        last == CHOOSE i \in told : \A j \in told : j <= i
    IN  IF told = {} THEN before
        ELSE IF log[last].ev = "view.showLoading" THEN "block"
        ELSE "none"

\* the run is over: its effects become the client's state
Commit(m) ==
    /\ cache' = m.posts
    /\ isLoading' = m.isLoading
    /\ observers' = m.observers
    /\ calls' = m.calls
    /\ emitted' = m.log
    /\ loadingIndicator' = Display(m.log, loadingIndicator)

\* BlogController.initialize, called once by the page, up to the fetch of the
\* first load (view.initialize() is synchronous)
Initialize ==
    /\ ~isInitialized
    /\ observers = <<>>
    /\ viewObservers' = Append(viewObservers, "controller")
    /\ Commit(ControllerLoadPosts(
                  Note(addObserver(Running, "controller"), "view.initialize",
                       NoData),
                  "initialize"))
    /\ UNCHANGED <<serverVars, isInitialized, failed>>

\* the view notifies onPostCreate
PostCreate(title, content) ==
    /\ viewObservers # <<>>
    /\ Commit(ViewNotify("onPostCreate", <<>>, title, content))
    /\ UNCHANGED <<serverVars, viewObservers, isInitialized, failed>>

\* the view notifies onPostUpdate
PostUpdate(id, title, content) ==
    /\ viewObservers # <<>>
    /\ Commit(ViewNotify("onPostUpdate", id, title, content))
    /\ UNCHANGED <<serverVars, viewObservers, isInitialized, failed>>

\* the view notifies onPostDelete
PostDelete(id) ==
    /\ viewObservers # <<>>
    /\ Commit(ViewNotify("onPostDelete", id, Undefined, Undefined))
    /\ UNCHANGED <<serverVars, viewObservers, isInitialized, failed>>

\* the view notifies onPostEdit
PostEdit(id) ==
    /\ viewObservers # <<>>
    /\ Commit(ViewNotify("onPostEdit", id, Undefined, Undefined))
    /\ UNCHANGED <<serverVars, viewObservers, isInitialized, failed>>

\* the request of call k reaches the server on connection c: the route's
\* handler runs its synchronous part
Arrive(k, c) ==
    /\ calls[k].conn = ""
    /\ \A j \in DOMAIN calls : calls[j].conn # c
    /\ \/ calls[k].op = "loadPosts" /\ GetAll(c)
       \/ calls[k].op = "createPost"
              /\ Create(c, calls[k].title, calls[k].content)
       \/ calls[k].op = "updatePost"
              /\ Update(c, ToParam(calls[k].id), calls[k].title, calls[k].content)
       \/ calls[k].op = "deletePost" /\ Delete(c, ToParam(calls[k].id))
    /\ calls' = [calls EXCEPT ![k].conn = c]
    /\ UNCHANGED <<cache, isLoading, observers, viewObservers, isInitialized,
                   emitted, failed, loadingIndicator>>

\* the calls in flight but the k-th
Others(k) == SubSeq(calls, 1, k - 1) \o SubSeq(calls, k + 1, Len(calls))

\* the operation waiting for call k goes on with r, and after it the
\* controller method waiting for the operation
Resume(k, r) ==
    LET call == calls[k]
        m == [Running EXCEPT !.calls = Others(k)]
    IN  CASE call.op = "loadPosts" -> ControllerLoadPostsResumed(m, r)
          [] call.op = "createPost" -> handlePostCreateResumed(m, r)
          [] call.op = "updatePost" -> handlePostUpdateResumed(m, call.id, r)
          [] call.op = "deletePost" -> handlePostDeleteResumed(m, call.id, r)

\* call k settled with r; initialize, when it awaited this load, goes on to
\* set isInitialized
Settle(k, r) ==
    /\ Commit(Resume(k, r))
    /\ isInitialized' = (isInitialized \/ calls[k].awaiter = "initialize")
    /\ failed' = (failed \/ Resume(k, r).raised # NoMsg)
    /\ UNCHANGED <<serverVars, viewObservers>>

\* the response to call k reaches the client
Receive(k) ==
    /\ calls[k].conn # ""
    /\ pc[calls[k].conn] = "done"
    /\ Settle(k, res[calls[k].conn])

\* the request of call k, or its response, is lost
Lose(k) == Settle(k, NetworkError)

\* a statement fails: `if (err) return res.status(500).json({ error:
\* err.message })`
StorageFail(c) ==
    /\ pc[c] \in {"all", "insert", "reread", "update", "delete"}
    /\ Respond(c, JsonError(500, "SQLITE_IOERR: disk I/O error"))
    /\ UNCHANGED <<dbVars, now, clientVars>>

\* rows inserted, or that the calls in flight will insert
InsertsAhead ==
    Inserts + Cardinality({k \in DOMAIN calls :
                              calls[k].op = "createPost" /\ calls[k].conn = ""})

\* the view's events, with id parameters I and payloads P, while fewer calls
\* are in flight than there are connections in C and at most cap rows get
\* inserted
Intents(C, I, P, cap) ==
    \/ Initialize
    \/ \E p \in P :
           /\ Len(calls) < Cardinality(C)
           /\ validatePostData(p[1], p[2]) # <<>> \/ InsertsAhead < cap
           /\ PostCreate(p[1], p[2])
    \/ \E id \in I, p \in P :
           Len(calls) < Cardinality(C) /\ PostUpdate(id, p[1], p[2])
    \/ \E id \in I : Len(calls) < Cardinality(C) /\ PostDelete(id)

\* requests arrive and responses return, in any order
Network(C) ==
    \/ \E k \in DOMAIN calls, c \in C : Arrive(k, c)
    \/ \E k \in DOMAIN calls : Receive(k)

\* the network loses a call, the storage engine fails a statement
Faults ==
    \/ \E k \in DOMAIN calls : Lose(k)
    \/ \E c \in Conns : StorageFail(c)

\* the callbacks of the statements the client's calls queue (it never asks
\* for a single post)
ClientCallbacks ==
    \/ \E c \in Conns : GetAllDone(c) /\ UNCHANGED clientVars
    \/ \E c \in Conns : CreateInsert(c) /\ UNCHANGED clientVars
    \/ \E c \in Conns : CreateDone(c) /\ UNCHANGED clientVars
    \/ \E c \in Conns : UpdateRun(c) /\ UNCHANGED clientVars
    \/ \E c \in Conns : UpdateDone(c) /\ UNCHANGED clientVars
    \/ \E c \in Conns : DeleteRun(c) /\ UNCHANGED clientVars

\* what the form lets through and what it does not: a short title, and a
\* missing title with a short content
ClientPayloads ==
    ValidPayloads \cup {<<Str(T2), Str(C10)>>, <<Undefined, Str(C9)>>}

\* the ids the view sends: "0" .. "n" and one that is no number
ClientIds(n) == DigitParams(n) \cup {<<"z">>}

\* the user opens the edit form of a post while nothing is in flight
Edits(I) == \E id \in I : calls = <<>> /\ PostEdit(id)

NextClient ==
    \/ Intents({"c1"}, ClientIds(ClientMaxId), ClientPayloads, ClientMaxId)
    \/ Network({"c1"})
    \/ ClientCallbacks
    \/ Faults

SpecClient == Init /\ [][NextClient]_vars

\* BlogController.initialize called again by the page or a script: the guard
\* is the code's own, `if (this.isInitialized) { console.warn(...); return; }`
InitializeAgain ==
    /\ observers # <<>>
    /\ isInitialized \/ Len(observers) < InitMaxCalls
    /\ viewObservers' = IF isInitialized
                          THEN viewObservers
                          ELSE Append(viewObservers, "controller")
    /\ Commit(IF isInitialized
                THEN Note(Running, "console.warn", NoData)
                ELSE ControllerLoadPosts(
                         Note(addObserver(Running, "controller"),
                              "view.initialize", NoData),
                         "initialize"))
    /\ UNCHANGED <<serverVars, isInitialized, failed>>

\* a page that may call initialize() more than once, and deletes posts
NextInit ==
    \/ Initialize
    \/ InitializeAgain
    \/ \E id \in ClientIds(0) : calls = <<>> /\ PostDelete(id)
    \/ Network(Conns)
    \/ \E k \in DOMAIN calls : Lose(k)
    \/ \E c \in Conns : GetAllDone(c) /\ UNCHANGED clientVars
    \/ \E c \in Conns : DeleteRun(c) /\ UNCHANGED clientVars

SpecInit == Init /\ [][NextInit]_vars

\* BlogController.validatePostData(postData), called by a script: the call
\* and what it returned are recorded
Validate(title, content) ==
    /\ Commit(Note(Note(Running, "validatePostData", Form(<<>>, title, content)),
                   "return", Text(Joined(validatePostData(title, content)))))
    /\ UNCHANGED <<serverVars, viewObservers, isInitialized, failed>>

\* titles: none, and every string of letters and blanks up to ValidateMaxLen
ValidateTitles ==
    {Undefined} \cup
    {Str(s) : s \in UNION {[1..k -> {"a", " "}] : k \in 0..ValidateMaxLen}}

\* contents: none, empty, blank, and 9 to 11 characters with and without
\* surrounding white space
ValidateContents ==
    {Undefined, Str(<<>>), Str(<<"\n">>), Str(C9), Str(C10), Str(Pad(C9)),
     Str(Pad(C10)), Str(C10 \o <<"x">>)}

NextValidate ==
    \E title \in ValidateTitles, content \in ValidateContents :
        Validate(title, content)

SpecValidate == Init /\ [][NextValidate]_vars

\* a script registers an observer on the model
AddObserver(observer) ==
    /\ Len(observers) < MaxObservers
    /\ Commit(addObserver(Running, observer))
    /\ UNCHANGED <<serverVars, viewObservers, isInitialized, failed>>

\* a script removes an observer from the model
RemoveObserver(observer) ==
    /\ Commit(removeObserver(Running, observer))
    /\ UNCHANGED <<serverVars, viewObservers, isInitialized, failed>>

\* model.notifyObservers(event, data)
Notify(event, data) ==
    /\ Commit(notifyObservers(Running, event, data))
    /\ UNCHANGED <<serverVars, viewObservers, isInitialized, failed>>

\* events that two, one and no observer have a method for
NotifyEvents == {"onLoadingChange", "onError", "onPostDeleted", "onPostsLoaded"}

\* the model as a subject: observers come and go, events are notified
NextObservers ==
    \/ \E o \in Listeners : AddObserver(o)
    \/ \E o \in Listeners : RemoveObserver(o)
    \/ \E event \in NotifyEvents, data \in {Flag(TRUE), Num(1)} :
           Notify(event, data)

SpecObservers == Init /\ [][NextObservers]_vars

\* the client with the edit form: one call at a time, valid payloads
NextEdit ==
    \/ Intents({"c1"}, ClientIds(ClientMaxId), ValidPayloads, ClientMaxId)
    \/ Edits(ClientIds(ClientMaxId))
    \/ Network({"c1"})
    \/ ClientCallbacks
    \/ Faults

SpecEdit == Init /\ [][NextEdit]_vars

\* requests reach the server
Arrivals(C) == \E k \in DOMAIN calls, c \in C : Arrive(k, c)

\* the response to some call is ready
Answered ==
    \E k \in DOMAIN calls : calls[k].conn # "" /\ pc[calls[k].conn] = "done"

\* a client run in which the operation waiting for a call went on
Resumed ==
    /\ pc' = pc
    /\ calls' # calls
    /\ \E i \in 1..Len(emitted') : emitted'[i].ev \in {"return", "throw"}

\* every HTTP call resolves: a request that can reach the server does, a
\* queued statement's callback runs, and the operation waiting for a response
\* that is ready goes on (weak fairness of Receive, its enabling condition
\* and its steps written out)
SpecEditFair ==
    /\ SpecEdit
    /\ WF_vars(Arrivals({"c1"}))
    /\ WF_vars(ClientCallbacks)
    /\ []<>(~Answered) \/ []<><<Resumed>>_vars

NextOverlap ==
    \/ Intents(Conns, ClientIds(RaceMaxId), ValidPayloads, RaceMaxId)
    \/ Network(Conns)
    \/ ClientCallbacks

SpecOverlap == Init /\ [][NextOverlap]_vars

\* ------------------------------------------------------------------ claims
\* the thresholds of the length rule
MinTitleLen == 3
MinContentLen == 10

\* this step, connection c's handler went from stage from to stage to
Went(c, from, to) == pc[c] = from /\ pc'[c] = to

\* the rows of a response, as a set
RowSet(response) == {response.rows[i] : i \in 1..Len(response.rows)}

StrictlyDescending(rows) ==
    \A i \in 1..(Len(rows) - 1) : rows[i].id > rows[i + 1].id

\* C1: Create, and Update of an existing post, reject (400) exactly the
\* payloads whose trimmed title is shorter than 3 characters or whose trimmed
\* content is shorter than 10.
C1_LengthBoundary ==
    \A c \in Conns :
        (/\ pc[c] = "done"
         /\ req[c].method \in {"POST", "PUT"}
         /\ req[c].method = "PUT" => IsFiniteId(req[c].id)
         /\ res[c].status # 404
         /\ ~req[c].title.absent
         /\ ~req[c].content.absent)
        => (res[c].status = 400
              <=> \/ Len(Trim(req[c].title.s)) < MinTitleLen
                  \/ Len(Trim(req[c].content.s)) < MinContentLen)

\* C2: whenever List answers, it answers 200 with exactly the rows of the
\* table, each once, in strictly descending id order (the empty array on an
\* empty table).
C2_ListExact ==
    [][\A c \in Conns :
          Went(c, "all", "done") =>
              /\ res'[c].status = 200
              /\ res'[c].kind = "rows"
              /\ StrictlyDescending(res'[c].rows)
              /\ RowSet(res'[c]) = posts
              /\ Len(res'[c].rows) = Cardinality(posts)]_vars

\* a List answered with two rows, one of them updated since its insertion
C2_Witness ==
    \E c \in Conns :
        /\ pc[c] = "done"
        /\ req[c].method = "LIST"
        /\ Len(res[c].rows) = 2
        /\ \E r \in RowSet(res[c]) : r.updated_at > r.created_at

\* C3: once a Delete of id X answered 200, the table never holds X again, a
\* Get of X answers 404, a List holds no row with id X, and no INSERT is
\* assigned X.
C3_DeleteFinal ==
    /\ [](deleted \cap Ids(posts) = {})
    /\ [][\A c \in Conns :
             /\ (Went(c, "get", "done") /\ ToNumber(req[c].id) \in deleted)
                    => res'[c].status = 404
             /\ Went(c, "all", "done")
                    => \A r \in RowSet(res'[c]) : r.id \notin deleted
             /\ Went(c, "insert", "reread")
                    => req'[c].lastID \notin deleted]_vars

\* a Get of a deleted id answered 404 after a later Create was given a new id
C3_Witness ==
    \E c \in Conns :
        /\ pc[c] = "done"
        /\ req[c].method = "GET"
        /\ ToNumber(req[c].id) \in deleted
        /\ res[c].status = 404
        /\ \E r \in posts : r.id > ToNumber(req[c].id)

\* C4: a Get, an Update with a valid payload and a Delete of a finite id that
\* has no row answer 404 and leave the table as it was.
C4_NotFound ==
    [][\A c \in Conns :
          LET absent == ToNumber(req[c].id) \notin Ids(posts)
          IN  /\ (pc[c] = "get" /\ pc'[c] # "get" /\ absent)
                    => (res'[c].status = 404 /\ posts' = posts)
              /\ (pc[c] = "update" /\ pc'[c] # "update" /\ absent)
                    => (pc'[c] = "done" /\ res'[c].status = 404 /\ posts' = posts)
              /\ (pc[c] = "delete" /\ pc'[c] # "delete" /\ absent)
                    => (res'[c].status = 404 /\ posts' = posts)]_vars

\* an Update of a deleted id answered 404 and the id has no row
C4_Witness ==
    \E c \in Conns :
        /\ pc[c] = "done"
        /\ req[c].method = "PUT"
        /\ ToNumber(req[c].id) \in deleted
        /\ res[c].status = 404
        /\ ToNumber(req[c].id) \notin Ids(posts)

\* C5: every row has updated_at >= created_at; an INSERT leaves the new row
\* with updated_at = created_at; an UPDATE that changes a row sets its
\* updated_at to the current time; no step changes the created_at of a row.
C5_Timestamps ==
    /\ [](\A r \in posts : r.updated_at >= r.created_at)
    /\ [][/\ \A c \in Conns :
             Went(c, "insert", "reread") =>
                 \E r \in posts' \ posts :
                     /\ r.id = req'[c].lastID
                     /\ r.updated_at = r.created_at
          /\ \A c \in Conns :
             Went(c, "update", "reread") =>
                 \E r \in posts' :
                     /\ r.id = ToNumber(req[c].id)
                     /\ r.updated_at = now
          /\ \A r \in posts, q \in posts' :
                 q.id = r.id => q.created_at = r.created_at]_vars

\* an Update answered 200 for a row whose updated_at is now later than its
\* created_at
C5_Witness ==
    \E c \in Conns, r \in posts :
        /\ pc[c] = "done"
        /\ req[c].method = "PUT"
        /\ res[c].status = 200
        /\ r.id = ToNumber(req[c].id)
        /\ r.updated_at > r.created_at
        /\ r.id \notin {o.id : o \in origin}

\* C6: a Get of the id a Create returned, with no Update or Delete of it in
\* between, answers 200 with the trimmed title and content of that Create's
\* request; the stored values are their own trim.
C6_RoundTrip ==
    [][\A c \in Conns :
          /\ (Went(c, "reread", "done") /\ req[c].method = "POST") =>
                /\ res'[c].status = 201
                /\ Len(res'[c].rows) = 1
                /\ res'[c].rows[1].id = req[c].lastID
                /\ \E o \in origin : o.id = req[c].lastID
          /\ Went(c, "get", "done") =>
                \A o \in origin :
                    o.id = ToNumber(req[c].id) =>
                        /\ res'[c].status = 200
                        /\ Len(res'[c].rows) = 1
                        /\ res'[c].rows[1].id = o.id
                        /\ res'[c].rows[1].title = Trim(o.title)
                        /\ res'[c].rows[1].content = Trim(o.content)
                        /\ Trim(res'[c].rows[1].title) = res'[c].rows[1].title
                        /\ Trim(res'[c].rows[1].content) = res'[c].rows[1].content]_vars

\* a Get answered with a post created from a padded title and content
C6_Witness ==
    \E c \in Conns, o \in origin :
        /\ pc[c] = "done"
        /\ req[c].method = "GET"
        /\ res[c].status = 200
        /\ o.id = ToNumber(req[c].id)
        /\ o.title # Trim(o.title)
        /\ o.content # Trim(o.content)

\* a field that is missing or holds nothing but whitespace
Blank(f) == f.absent \/ \A i \in 1..Len(f.s) : f.s[i] \in WS

\* an id parameter that is no finite number
NotANumber(p) == \E i \in 1..Len(p) : ~IsDigit(p[i])

\* C7: an Update with a non-finite id answers 400 'Invalid id' whatever the
\* payload; with a finite id and a blank title or content it answers 400,
\* whether or not the id exists; it answers 404 only with a finite id and a
\* payload without blank field; Get and Delete answer 400 for a non-finite
\* id, and no statement is queued for a request rejected so.
C7_ValidationOrder ==
    \A c \in Conns :
        /\ (pc[c] = "done" /\ req[c].method \in {"GET", "PUT", "DELETE"}
                /\ NotANumber(req[c].id))
              => (res[c].status = 400 /\ res[c].error = "Invalid id")
        /\ (pc[c] = "done" /\ req[c].method = "PUT" /\ ~NotANumber(req[c].id)
                /\ (Blank(req[c].title) \/ Blank(req[c].content)))
              => (res[c].status = 400 /\ res[c].error = "Title and content required")
        /\ (pc[c] = "done" /\ req[c].method = "PUT" /\ res[c].status = 404)
              => (/\ ~NotANumber(req[c].id)
                  /\ ~Blank(req[c].title)
                  /\ ~Blank(req[c].content))
        /\ pc[c] \in {"get", "update", "delete"} => ~NotANumber(req[c].id)
        /\ pc[c] = "update" => (~Blank(req[c].title) /\ ~Blank(req[c].content))

\* an Update of an existing post with a blank content was answered 400
C7_Witness ==
    \E c \in Conns :
        /\ pc[c] = "done"
        /\ req[c].method = "PUT"
        /\ ~NotANumber(req[c].id)
        /\ ToNumber(req[c].id) \in Ids(posts)
        /\ ~Blank(req[c].title)
        /\ Blank(req[c].content)
        /\ res[c].status = 400

\* a string that is not empty and neither starts nor ends with whitespace
Trimmed(s) == s # <<>> /\ s[1] \notin WS /\ s[Len(s)] \notin WS

\* C8: every row of the table, and every row a response carries, has a
\* non-empty title and content that are their own trim; a Create or Update
\* with a blank title or content answers 400, and a request answered 400
\* leaves the table as it was.
C8_NonEmpty ==
    /\ [](/\ \A r \in posts : Trimmed(r.title) /\ Trimmed(r.content)
          /\ \A c \in Conns :
                \A r \in RowSet(res[c]) : Trimmed(r.title) /\ Trimmed(r.content)
          /\ \A c \in Conns :
                (/\ pc[c] = "done"
                 /\ req[c].method \in {"POST", "PUT"}
                 /\ (Blank(req[c].title) \/ Blank(req[c].content)))
                => res[c].status = 400)
    /\ [][\A c \in Conns :
             (/\ pc'[c] = "done"
              /\ res'[c].status = 400
              /\ <<req'[c], pc'[c], res'[c]>> # <<req[c], pc[c], res[c]>>)
             => (posts' = posts /\ seq' = seq)]_vars

\* a Create with a whitespace-only title was answered 400 while a post exists
C8_Witness ==
    \E c \in Conns :
        /\ pc[c] = "done"
        /\ req[c].method = "POST"
        /\ ~req[c].title.absent
        /\ req[c].title.s # <<>>
        /\ Blank(req[c].title)
        /\ ~Blank(req[c].content)
        /\ res[c].status = 400
        /\ posts # {}

\* C9: ids are positive integers and no two rows share one; an INSERT adds one
\* row whose id is greater than every id assigned before; a row's id goes away
\* only by a Delete of it; an UPDATE keeps the set of ids, every other row and
\* the created_at of the row it addresses.
C9_Ids ==
    /\ [](/\ \A r \in posts : r.id \in Nat /\ r.id > 0
          /\ \A r, q \in posts : r.id = q.id => r = q)
    /\ [][/\ \A c \in Conns :
             Went(c, "insert", "reread") =>
                 /\ req'[c].lastID \notin issued
                 /\ \A i \in issued : req'[c].lastID > i
                 /\ posts \subseteq posts'
                 /\ Ids(posts' \ posts) = {req'[c].lastID}
          /\ \A c \in Conns :
             (pc[c] = "update" /\ pc'[c] # "update") =>
                 /\ Ids(posts') = Ids(posts)
                 /\ \A r \in posts : r.id # ToNumber(req[c].id) => r \in posts'
                 /\ \A r \in posts, q \in posts' :
                       (r.id = ToNumber(req[c].id) /\ q.id = r.id)
                           => q.created_at = r.created_at
          /\ \A r \in posts :
                 \/ r.id \in Ids(posts')
                 \/ \E c \in Conns :
                       Went(c, "delete", "done") /\ ToNumber(req[c].id) = r.id]_vars

\* the second of two posts was updated and the first is as it was created
C9_Witness ==
    \E c \in Conns, r \in posts, q \in posts :
        /\ pc[c] = "reread"
        /\ req[c].method = "PUT"
        /\ r.id = ToNumber(req[c].id)
        /\ q.id < r.id
        /\ r.title # q.title
        /\ q.id \in {o.id : o \in origin}

\* C10: the row a 201 or 200 response carries is the row the request wrote:
\* its id, the trimmed title and content of the request and, after a Create,
\* updated_at = created_at.
C10_AtomicWriteReread ==
    [][\A c \in Conns :
          Went(c, "reread", "done") =>
              /\ res'[c].status = IF req[c].method = "POST" THEN 201 ELSE 200
              /\ Len(res'[c].rows) = 1
              /\ res'[c].rows[1].id =
                    IF req[c].method = "POST" THEN req[c].lastID
                                              ELSE ToNumber(req[c].id)
              /\ res'[c].rows[1].title = Trim(req[c].title.s)
              /\ res'[c].rows[1].content = Trim(req[c].content.s)
              /\ req[c].method = "POST" =>
                    res'[c].rows[1].updated_at = res'[c].rows[1].created_at]_vars

\* ------------------------------------------------------- claims: the client
\* the record of a run holds event ev of operation op
Has(log, ev, op) == \E i \in 1..Len(log) : log[i].ev = ev /\ log[i].op = op

\* how often it does
Times(log, ev, op) ==
    Cardinality({i \in 1..Len(log) : log[i].ev = ev /\ log[i].op = op})

\* the ids of a list of posts
IdsOf(list) == {list[i].id : i \in 1..Len(list)}

\* C11: from an empty store, one client creates post A: the cache emits
\* onPostCreated carrying A and the reload that follows emits onPostsLoaded
\* with exactly the store's list; the client deletes A: the cache emits
\* onPostDeleted carrying A's id, and the reload that follows emits
\* onPostsLoaded with the store's list, which is empty, and leaves the cache
\* empty.
C11_Scenario ==
    [][pc' = pc =>
          /\ Has(emitted', "return", "createPost") =>
                \E k \in DOMAIN calls, i, j \in 1..Len(emitted') :
                    /\ calls[k].op = "createPost"
                    /\ i < j
                    /\ emitted'[i].ev = "onPostCreated"
                    /\ Len(emitted'[i].data.rows) = 1
                    /\ emitted'[i].data.rows[1] \in posts
                    /\ emitted'[i].data.rows[1].id \notin IdsOf(cache)
                    /\ emitted'[i].data.rows[1].title = Trim(calls[k].title.s)
                    /\ emitted'[i].data.rows[1].content = Trim(calls[k].content.s)
                    /\ emitted'[j].ev = "fetch"
                    /\ emitted'[j].op = "loadPosts"
          /\ Has(emitted', "return", "loadPosts") =>
                /\ cache' = SelectAll
                /\ \E i \in 1..Len(emitted') :
                      /\ emitted'[i].ev = "onPostsLoaded"
                      /\ emitted'[i].data.rows = SelectAll
          /\ Has(emitted', "return", "deletePost") =>
                \E k \in DOMAIN calls, i, j \in 1..Len(emitted') :
                    /\ calls[k].op = "deletePost"
                    /\ calls[k].id \notin Ids(posts)
                    /\ i < j
                    /\ emitted'[i].ev = "onPostDeleted"
                    /\ emitted'[i].data.id = calls[k].id
                    /\ emitted'[j].ev = "fetch"
                    /\ emitted'[j].op = "loadPosts"]_vars

\* the scenario has run to its end without a failure: post 1 was created and
\* deleted, and the last reload announced the empty list
C11_Witness ==
    /\ issued = {1}
    /\ deleted = {1}
    /\ posts = {}
    /\ ~failed
    /\ calls = <<>>
    /\ cache = <<>>
    /\ Has(emitted, "return", "loadPosts")
    /\ \E i \in 1..Len(emitted) :
          emitted[i].ev = "onPostsLoaded" /\ emitted[i].data.rows = <<>>

\* C12: once every call has resolved successfully and none is in flight, the
\* cache equals the store's list, whatever intents were issued (also while
\* earlier calls were in flight) and in whatever order the responses came.
C12_EventuallyConsistent ==
    (observers # <<>> /\ calls = <<>> /\ ~failed) => cache = SelectAll

\* some operation ended this run the way ev says ("return" or "throw")
Ended(log, ev) == \E i \in 1..Len(log) : log[i].ev = ev

\* C13: the cache's list changes only in a run of the client that received a
\* 2xx response to a call and ended that call's operation with success; a run
\* that starts a call, and a run in which an operation fails (validation,
\* lost call, non-2xx response), leave the list as it was.
C13_OnlyOnSuccess ==
    [][/\ cache' # cache =>
             /\ pc' = pc
             /\ \E k \in DOMAIN calls :
                   /\ calls[k].conn # ""
                   /\ pc[calls[k].conn] = "done"
                   /\ res[calls[k].conn].status \in {200, 201}
                   /\ Has(emitted', "return", calls[k].op)
       /\ (pc' = pc /\ Len(calls') > Len(calls)) => cache' = cache
       /\ (pc' = pc /\ Ended(emitted', "throw")) => cache' = cache]_vars

\* an update of a post that is not in the store was answered 404 and the
\* cache still holds its post
C13_Witness ==
    /\ cache # <<>>
    /\ Has(emitted, "throw", "updatePost")
    /\ \E i \in 1..Len(emitted) :
          /\ emitted[i].ev = "onError"
          /\ emitted[i].data.msg.parts = <<"Not found">>

\* C14: in every reachable state the cache is strictly descending by id (so
\* no id appears twice), also when the responses of overlapping load and
\* create calls arrive in any order.
C14_CacheDescending == StrictlyDescending(cache)

\* when the j-th entry of the record was emitted, the operation emitting it
\* had last set the loading flag to true
FlagUpAt(log, j) ==
    \E i \in 1..(j - 1) :
        /\ log[i].ev = "onLoadingChange"
        /\ log[i].op = log[j].op
        /\ log[i].data.on
        /\ \A n \in (i + 1)..(j - 1) : log[n].ev # "onLoadingChange"

\* before its j-th entry the operation emitted onLoadingStart
StartedBy(log, j) ==
    \E i \in 1..(j - 1) : log[i].ev = "onLoadingStart" /\ log[i].op = log[j].op

\* C15, as stated: every cache operation sets the loading flag to true and
\* emits onLoadingStart before it issues its HTTP call.
C15_LoadingStartBeforeFetch ==
    [][pc' = pc =>
          \A j \in 1..Len(emitted') :
              emitted'[j].ev = "fetch" =>
                  FlagUpAt(emitted', j) /\ StartedBy(emitted', j)]_vars

\* C15, amended: every cache operation sets the loading flag to true before
\* it issues its HTTP call; loadPosts also emits onLoadingStart before the
\* call, and createPost, updatePost and deletePost never emit onLoadingStart.
C15_LoadingBeforeFetch ==
    [][pc' = pc =>
          /\ \A j \in 1..Len(emitted') :
                emitted'[j].ev = "fetch" =>
                    /\ FlagUpAt(emitted', j)
                    /\ emitted'[j].op = "loadPosts" => StartedBy(emitted', j)
          /\ \A i \in 1..Len(emitted') :
                emitted'[i].ev = "onLoadingStart" => emitted'[i].op = "loadPosts"]_vars

\* createPost has issued its call with the flag up and without onLoadingStart
C15_Witness ==
    /\ isLoading
    /\ Has(emitted, "fetch", "createPost")
    /\ \E k \in DOMAIN calls : calls[k].op = "createPost"
    /\ ~Ended(emitted, "onLoadingStart")

\* the last change of the loading flag before the j-th entry of the record
\* was made by the operation emitting that entry and set the flag to false
FlagDownAt(log, j) ==
    \E i \in 1..(j - 1) :
        /\ log[i].ev = "onLoadingChange"
        /\ log[i].op = log[j].op
        /\ ~log[i].data.on
        /\ \A n \in (i + 1)..(j - 1) : log[n].ev # "onLoadingChange"

\* C16: every cache operation, returning or throwing, completes with the
\* loading flag set to false; a run emits onLoadingEnd once for each loadPosts
\* that completes in it, success or failure, and never for another operation
\* or for a loadPosts that only starts; whenever no call is awaited the flag
\* is false.
C16_LoadingEnds ==
    /\ [](calls = <<>> => ~isLoading)
    /\ [][pc' = pc =>
             /\ \A j \in 1..Len(emitted') :
                   emitted'[j].ev \in {"return", "throw"} =>
                       FlagDownAt(emitted', j)
             /\ Times(emitted', "onLoadingEnd", "loadPosts") =
                    Times(emitted', "return", "loadPosts")
                        + Times(emitted', "throw", "loadPosts")
             /\ \A i \in 1..Len(emitted') :
                   emitted'[i].ev = "onLoadingEnd" => emitted'[i].op = "loadPosts"
             /\ Times(emitted', "return", "loadPosts")
                    + Times(emitted', "throw", "loadPosts") <= 1]_vars

\* a load answered 500 has thrown after one onLoadingEnd; nothing is awaited
\* and the flag is down
C16_Witness ==
    /\ calls = <<>>
    /\ ~isLoading
    /\ Has(emitted, "throw", "loadPosts")
    /\ Times(emitted, "onLoadingEnd", "loadPosts") = 1
    /\ \E i \in 1..Len(emitted) :
          emitted[i].ev = "throw" /\ emitted[i].data.msg.status = 500

\* C17: in every state in which a call of a cache operation is in flight,
\* the reload after a successful mutation included, isLoading is true.
C17_FlagWhileInFlight == calls # <<>> => isLoading

\* the cache operations, the events announcing their success, and the view
\* events with the operation each is for
Operations == {"loadPosts", "createPost", "updatePost", "deletePost"}
SuccessEvents ==
    {"onPostsLoaded", "onPostCreated", "onPostUpdated", "onPostDeleted"}
Matching ==
    [onPostCreate |-> "createPost", onPostUpdate |-> "updatePost",
     onPostDelete |-> "deletePost"]

\* the step is a run of the client in which the one call in flight settled:
\* no handler of the server moved and the run began with no event of the view
SettledRun ==
    /\ pc' = pc
    /\ Len(calls) = 1
    /\ emitted' # <<>>
    /\ emitted'[1].ev \notin (DOMAIN Matching \cup {"view.initialize"})

\* the run found no response: fetch rejected
Rejected(log) ==
    \E i \in 1..Len(log) :
        log[i].ev = "onError" /\ log[i].data.msg.parts = <<"Failed to fetch">>

\* C18: an operation that throws has emitted exactly one onError before,
\* carrying the message it throws, has emitted no success event and does not
\* return; every operation a view event starts either issues its call or
\* throws; an operation whose call settles without a 2xx response throws, and
\* one that returns had a 2xx response; onError comes from a failing
\* operation only.
C18_ErrorThenRethrow ==
    [][/\ pc' = pc =>
             /\ \A j \in 1..Len(emitted') :
                   emitted'[j].ev = "throw" =>
                       /\ emitted'[j].op \in Operations
                       /\ emitted'[j].data.msg # NoMsg
                       /\ Times(emitted', "onError", emitted'[j].op) = 1
                       /\ \E i \in 1..(j - 1) :
                             /\ emitted'[i].ev = "onError"
                             /\ emitted'[i].op = emitted'[j].op
                             /\ emitted'[i].data.msg = emitted'[j].data.msg
                       /\ ~Has(emitted', "return", emitted'[j].op)
                       /\ \A e \in SuccessEvents : ~Has(emitted', e, emitted'[j].op)
             /\ \A i \in 1..Len(emitted') :
                   emitted'[i].ev = "onError" =>
                       Has(emitted', "throw", emitted'[i].op)
             /\ \A v \in DOMAIN Matching :
                   (emitted' # <<>> /\ emitted'[1].ev = v) =>
                       Has(emitted', "fetch", Matching[v])
                           # Has(emitted', "throw", Matching[v])
       /\ SettledRun =>
             LET call == calls[1]
                 answered ==
                     /\ call.conn # ""
                     /\ pc[call.conn] = "done"
                     /\ Ok(res[call.conn])
             IN  /\ Has(emitted', "return", call.op)
                        # Has(emitted', "throw", call.op)
                 /\ ~answered => Has(emitted', "throw", call.op)]_vars

\* createPost threw the two validation messages joined, after one onError
\* with them
C18_Witness ==
    /\ Has(emitted, "throw", "createPost")
    /\ Times(emitted, "onError", "createPost") = 1
    /\ \E i \in 1..Len(emitted) :
          /\ emitted[i].ev = "onError"
          /\ emitted[i].data.msg.parts =
                 <<"Title is required", "Content must be at least 10 characters long">>

\* C19: an operation (load, create, update, delete) that receives a non-2xx
\* response carries, in onError and in the error it throws, the error string
\* of the JSON body when the body has one, and otherwise a message with
\* 'HTTP <status>'.
C19_MessageFromBody ==
    [][(/\ SettledRun
        /\ calls[1].conn # ""
        /\ pc[calls[1].conn] = "done"
        /\ ~Ok(res[calls[1].conn])
        /\ ~Rejected(emitted'))
       => \A i \in 1..Len(emitted') :
              (emitted'[i].ev \in {"onError", "throw"}
                   /\ emitted'[i].op = calls[1].op)
              => IF res[calls[1].conn].kind = "error"
                       /\ res[calls[1].conn].error # ""
                   THEN emitted'[i].data.msg.parts = <<res[calls[1].conn].error>>
                   ELSE emitted'[i].data.msg.status = res[calls[1].conn].status]_vars

\* C20: a create, update or delete event of the view starts the matching
\* cache operation and no other; when a createPost, updatePost or deletePost
\* returns, one reload (loadPosts, GET /api/posts) has been started after its
\* success event; when it throws, no call has been started.
C20_ReloadOnSuccess ==
    [][(pc' = pc /\ emitted' # <<>>) =>
          /\ \A v \in DOMAIN Matching :
                emitted'[1].ev = v =>
                    /\ Len(emitted') > 1
                    /\ emitted'[2].ev = "onLoadingChange"
                    /\ \A i \in 2..Len(emitted') :
                          emitted'[i].op \in {"", Matching[v]}
                    /\ Has(emitted', "fetch", Matching[v]) =>
                          /\ Len(calls') = Len(calls) + 1
                          /\ calls'[Len(calls')].op = Matching[v]
          /\ \A x \in Operations \ {"loadPosts"} :
                /\ Has(emitted', "return", x) =>
                      /\ Times(emitted', "fetch", "loadPosts") = 1
                      /\ \E i, j \in 1..Len(emitted') :
                            /\ i < j
                            /\ emitted'[i].ev \in SuccessEvents
                            /\ emitted'[i].op = x
                            /\ emitted'[j].ev = "fetch"
                            /\ emitted'[j].op = "loadPosts"
                      /\ Len(calls') = Len(calls)
                      /\ calls'[Len(calls')].op = "loadPosts"
                      /\ calls'[Len(calls')].conn = ""
                /\ Has(emitted', "throw", x) =>
                      /\ ~Ended(emitted', "fetch")
                      /\ Len(calls') <= Len(calls)
                      /\ \A k \in DOMAIN calls' : calls'[k].conn # ""]_vars

\* updatePost returned for a post of the store and the reload is on its way
C20_Witness ==
    /\ Has(emitted, "return", "updatePost")
    /\ Has(emitted, "fetch", "loadPosts")
    /\ Len(calls) = 1
    /\ calls[1].op = "loadPosts"
    /\ posts # {}

\* C21: however often initialize() is called, the controller is registered
\* once on the model and once on the view, and the initial load is made once
C21_InitializeOnce ==
    /\ Len(observers) <= 1
    /\ Len(viewObservers) <= 1
    /\ Cardinality({k \in DOMAIN calls : calls[k].awaiter = "initialize"}) <= 1

\* the entries of log that are the call ev
Where(log, ev) == {i \in 1..Len(log) : log[i].ev = ev}

\* C22: an edit intent for post id X is answered from the cache alone: no
\* HTTP request is issued and nothing escapes; when the cache holds a post
\* with id X that post is handed to the edit form and no error is shown,
\* otherwise 'Post not found.' is shown and no edit form; cache and store are
\* left unchanged.
C22_EditFromCache ==
    [][(pc' = pc /\ emitted' # <<>> /\ emitted'[1].ev = "onPostEdit") =>
          LET X == emitted'[1].data.param
              held == {i \in 1..Len(cache) :
                          ~NotANumber(X) /\ cache[i].id = ToNumber(X)}
          IN  /\ Where(emitted', "fetch") = {}
              /\ Where(emitted', "throw") = {}
              /\ calls' = calls
              /\ cache' = cache
              /\ posts' = posts
              /\ IF held # {}
                   THEN /\ Where(emitted', "view.showError") = {}
                        /\ \E j \in Where(emitted', "view.showEditForm") :
                              \E i \in held :
                                  /\ emitted'[j].data.rows = <<cache[i]>>
                                  /\ \A h \in held : i <= h
                   ELSE /\ Where(emitted', "view.showEditForm") = {}
                        /\ \E j \in Where(emitted', "view.showError") :
                              emitted'[j].data.msg = Message("Post not found.")]_vars

\* the store holds post X but the cache does not (the response to its create
\* was lost), and the edit intent for X was answered with the error
C22_Witness ==
    /\ emitted # <<>>
    /\ emitted[1].ev = "onPostEdit"
    /\ ~NotANumber(emitted[1].data.param)
    /\ ToNumber(emitted[1].data.param) \in Ids(posts)
    /\ ToNumber(emitted[1].data.param) \notin IdsOf(cache)
    /\ Where(emitted, "view.showError") # {}

\* C23: nothing is retried.  A request that reached the server is never sent
\* again; a run issues at most one request per cache operation; a
\* create/update/delete intent issues at most one request, that of its own
\* operation; the run in which a mutation call settles issues exactly one
\* list request when the mutation succeeded and none when it failed; the run
\* in which a list call settles issues none, whether it succeeded or failed.
C23_NoRetry ==
    [][/\ pc' # pc =>
             /\ Len(calls') = Len(calls)
             /\ \A k \in DOMAIN calls : calls[k].conn # "" => calls'[k] = calls[k]
       /\ (pc' = pc /\ emitted' # <<>>) =>
             /\ \A o \in Operations : Times(emitted', "fetch", o) <= 1
             /\ emitted'[1].ev \in DOMAIN Matching =>
                   /\ Cardinality(Where(emitted', "fetch")) <= 1
                   /\ \A i \in Where(emitted', "fetch") :
                         emitted'[i].op = Matching[emitted'[1].ev]
                   /\ Len(calls') = Len(calls) + Cardinality(Where(emitted', "fetch"))
             /\ SettledRun =>
                   IF \E o \in Operations \ {"loadPosts"} :
                          Has(emitted', "return", o)
                     THEN /\ Cardinality(Where(emitted', "fetch")) = 1
                          /\ Times(emitted', "fetch", "loadPosts") = 1
                          /\ Len(calls') = 1
                          /\ calls'[1].op = "loadPosts"
                     ELSE /\ Where(emitted', "fetch") = {}
                          /\ calls' = <<>>]_vars

\* a load was answered 500, the operation threw and nothing is in flight
C23_Witness ==
    /\ calls = <<>>
    /\ Has(emitted, "throw", "loadPosts")
    /\ \E i \in Where(emitted, "onError") : emitted[i].data.msg.status = 500

\* the length of s after trim(): from its first to its last character that
\* is not white space
TrimLen(s) ==
    LET solid == {i \in 1..Len(s) : s[i] \notin WS}
    IN  IF solid = {}
          THEN 0
          ELSE (CHOOSE i \in solid : \A j \in solid : j <= i)
               - (CHOOSE i \in solid : \A j \in solid : i <= j) + 1

\* the field is missing, empty, or shorter than least after trim
Offending(f, least) == f.absent \/ f.s = <<>> \/ TrimLen(f.s) < least

\* C24: validatePostData({title, content}) returns a non-empty list exactly
\* when the title is missing, empty or shorter than 3 characters after trim,
\* or the content is missing, empty or shorter than 10 characters after
\* trim; the list has one error per offending field, the title's first.
C24_ValidationErrors ==
    (emitted # <<>> /\ emitted[1].ev = "validatePostData") =>
        LET title == emitted[1].data.title
            content == emitted[1].data.content
            errors == emitted[2].data.msg.parts
            t == IF Offending(title, MinTitleLen) THEN 1 ELSE 0
            c == IF Offending(content, MinContentLen) THEN 1 ELSE 0
        IN  /\ errors # <<>> <=> (t = 1 \/ c = 1)
            /\ Len(errors) = t + c
            /\ t = 1 =>
                  errors[1] \in {"Title is required",
                                 "Title must be at least 3 characters long"}
            /\ c = 1 =>
                  errors[t + 1] \in {"Content is required",
                                     "Content must be at least 10 characters long"}

\* a title of three letters and a content of nine
\* characters inside white space: one error, for the content
C24_Witness ==
    /\ emitted # <<>>
    /\ emitted[1].ev = "validatePostData"
    /\ emitted[1].data.title = Str(<<"a", "a", "a">>)
    /\ emitted[1].data.content = Str(Pad(C9))
    /\ emitted[2].data.msg.parts = <<"Content must be at least 10 characters long">>

\* the texts validatePostData reports
ValidationTexts ==
    {"Title is required", "Title must be at least 3 characters long",
     "Content is required", "Content must be at least 10 characters long"}

\* C25: a create or update intent whose title or content fails the local
\* validation, and an update or delete intent whose post id is not a finite
\* number, issue no HTTP request: the operation emits onError with the
\* message ('Invalid post id', or the validation errors, one per offending
\* field), throws that message, and leaves store and cache as they were with
\* the loading flag false.
C25_NoRequestWhenInvalid ==
    [][(pc' = pc /\ emitted' # <<>> /\ emitted'[1].ev \in DOMAIN Matching) =>
          LET op == Matching[emitted'[1].ev]
              given == emitted'[1].data
              offending ==
                  {f \in {"title", "content"} :
                      Offending(given[f], IF f = "title" THEN MinTitleLen
                                                         ELSE MinContentLen)}
              badId == op \in {"updatePost", "deletePost"} /\ NotANumber(given.param)
              invalid == op \in {"createPost", "updatePost"} /\ offending # {}
          IN  (badId \/ invalid) =>
                  /\ Where(emitted', "fetch") = {}
                  /\ calls' = calls
                  /\ cache' = cache
                  /\ posts' = posts
                  /\ isLoading' = FALSE
                  /\ \E i \in Where(emitted', "onError"), j \in Where(emitted', "throw") :
                        /\ i < j
                        /\ emitted'[i].op = op
                        /\ emitted'[j].op = op
                        /\ emitted'[j].data.msg = emitted'[i].data.msg
                        /\ IF badId
                             THEN emitted'[i].data.msg = Message("Invalid post id")
                             ELSE /\ Len(emitted'[i].data.msg.parts)
                                        = Cardinality(offending)
                                  /\ \A n \in DOMAIN emitted'[i].data.msg.parts :
                                        emitted'[i].data.msg.parts[n]
                                            \in ValidationTexts]_vars

\* an update intent with a title that is missing and a content that is too
\* short for a post whose id is a number: both errors were reported
C25_Witness ==
    /\ emitted # <<>>
    /\ emitted[1].ev = "onPostUpdate"
    /\ ~NotANumber(emitted[1].data.param)
    /\ emitted[1].data.title = Undefined
    /\ Has(emitted, "throw", "updatePost")
    /\ \E i \in Where(emitted, "onError") :
          emitted[i].data.msg.parts
              = <<"Title is required", "Content must be at least 10 characters long">>
    /\ ~isLoading

\* C26: notifyObservers(event, data) calls the method named event once,
\* with data, on every registered observer that has it, in registration
\* order (an observer registered twice is called twice), and calls nothing
\* else; addObserver appends, and removeObserver removes every registration
\* of the observer, so that it is called no more.
C26_NotifyEachOnce ==
    [][/\ emitted' # <<>> =>
             LET event == emitted'[1].ev
                 data == emitted'[1].data
                 having == SelectSeq(observers,
                                     LAMBDA o : event \in Implements[o])
             IN  /\ observers' = observers
                 /\ Len(emitted') = 1 + Len(having)
                 /\ \A i \in 1..Len(having) :
                       /\ emitted'[i + 1].to = having[i]
                       /\ emitted'[i + 1].ev = event
                       /\ emitted'[i + 1].data = data
       /\ Len(observers') > Len(observers) =>
             \E o \in Listeners : observers' = Append(observers, o)
       /\ Len(observers') < Len(observers) =>
             \E o \in Listeners :
                 /\ observers' = SelectSeq(observers, LAMBDA x : x # o)
                 /\ \A i \in 1..Len(observers') : observers'[i] # o]_vars

\* logger was registered, then badge, then logger again: a loading change
\* was delivered to logger, badge and logger, in this order
C26_Witness ==
    /\ observers = <<"logger", "badge", "logger">>
    /\ Len(emitted) = 4
    /\ emitted[1].ev = "onLoadingChange"
    /\ emitted[2].to = "logger"
    /\ emitted[3].to = "badge"
    /\ emitted[4].to = "logger"

\* C27: overlapping Updates of one existing id are all accepted: an UPDATE
\* that finds the row goes on to the re-read and is answered 200, never a
\* conflict; when it ran, the stored title and content are its own (trimmed),
\* whatever an earlier Update wrote; and title and content change in no other
\* step, so the stored values are those of the Update applied last.
C27_LastWriteWins ==
    [][/\ \A c \in Conns :
             /\ (pc[c] = "update" /\ pc'[c] # "update"
                     /\ ToNumber(req[c].id) \in Ids(posts)) =>
                   /\ pc'[c] = "reread"
                   /\ \E r \in posts' :
                         /\ r.id = ToNumber(req[c].id)
                         /\ r.title = Trim(req[c].title.s)
                         /\ r.content = Trim(req[c].content.s)
             /\ (Went(c, "reread", "done") /\ req[c].method = "PUT") =>
                   res'[c].status = 200
       /\ \A r \in posts, n \in posts' :
             (n.id = r.id /\ (n.title # r.title \/ n.content # r.content)) =>
                 \E c \in Conns :
                     Went(c, "update", "reread") /\ ToNumber(req[c].id) = r.id]_vars

\* two Updates of one id with different titles were both answered 200; the
\* row holds the second one's title, and so does the answer to the first
C27_Witness ==
    /\ \A c \in Conns :
          /\ req[c].method = "PUT"
          /\ pc[c] = "done"
          /\ res[c].status = 200
    /\ req["c1"].id = req["c2"].id
    /\ req["c1"].title # req["c2"].title
    /\ \E r \in posts :
          /\ r.id = ToNumber(req["c1"].id)
          /\ r.title = Trim(req["c2"].title.s)
          /\ res["c1"].rows = <<r>>

\* the success event of each mutation and the confirmation shown for it
SuccessOf ==
    [createPost |-> [ev |-> "onPostCreated", text |-> "Post created successfully!"],
     updatePost |-> [ev |-> "onPostUpdated", text |-> "Post updated successfully!"],
     deletePost |-> [ev |-> "onPostDeleted", text |-> "Post deleted successfully!"]]

\* C28: view.showSuccess is called at most once in a run, with the text of a
\* mutation whose call was answered 2xx, after that operation emitted its
\* success event and after it returned; a run in which a mutation throws
\* calls showSuccess not at all.
C28_SuccessAfterResolve ==
    [][pc' = pc =>
          /\ Cardinality(Where(emitted', "view.showSuccess")) <= 1
          /\ \A j \in Where(emitted', "view.showSuccess") :
                \E o \in DOMAIN SuccessOf, k \in DOMAIN calls :
                    /\ emitted'[j].data.msg = Message(SuccessOf[o].text)
                    /\ calls[k].op = o
                    /\ calls[k].conn # ""
                    /\ pc[calls[k].conn] = "done"
                    /\ res[calls[k].conn].status \in 200..299
                    /\ \E i, r \in 1..(j - 1) :
                          /\ i < r
                          /\ emitted'[i].ev = SuccessOf[o].ev
                          /\ emitted'[i].op = o
                          /\ emitted'[r].ev = "return"
                          /\ emitted'[r].op = o
          /\ (\E o \in DOMAIN SuccessOf : Has(emitted', "throw", o)) =>
                Where(emitted', "view.showSuccess") = {}]_vars

\* an update was answered 200: its success event, its return and then the
\* confirmation
C28_Witness ==
    /\ Has(emitted, "onPostUpdated", "updatePost")
    /\ Has(emitted, "return", "updatePost")
    /\ \E j \in Where(emitted, "view.showSuccess") :
          /\ j = Len(emitted)
          /\ emitted[j].data.msg = Message("Post updated successfully!")

Loading == \E k \in DOMAIN calls : calls[k].op = "loadPosts"

\* what loadPosts itself emitted in the run, in order
OfLoad(log) ==
    SelectSeq(log, LAMBDA e :
        /\ e.op = "loadPosts"
        /\ e.ev \in {"onLoadingStart", "onPostsLoaded", "onError",
                      "onLoadingEnd", "fetch"})

\* C30: loadPosts emits onLoadingStart and then issues its call; when the
\* call settles it emits exactly one of onPostsLoaded (carrying the list that
\* replaced the cache) and onError, and then onLoadingEnd.  While no list
\* call is in flight the view's indicator is not shown, and, every call
\* resolving, a shown indicator is eventually hidden and a list call in
\* flight eventually is not.
C30_LoadEvents ==
    /\ [][pc' = pc =>
             LET ev == [i \in DOMAIN OfLoad(emitted') |-> OfLoad(emitted')[i].ev]
             IN  /\ Len(calls') > Len(calls) \/ ~SettledRun =>
                       ev \in {<<>>, <<"onLoadingStart", "fetch">>}
                 /\ (SettledRun /\ calls[1].op = "loadPosts") =>
                       /\ ev \in {<<"onPostsLoaded", "onLoadingEnd">>,
                                  <<"onError", "onLoadingEnd">>}
                       /\ ev[1] = "onPostsLoaded" =>
                             /\ OfLoad(emitted')[1].data.rows = cache'
                             /\ cache' = res[calls[1].conn].rows
                       /\ ev[1] = "onError" => cache' = cache
                 /\ (SettledRun /\ calls[1].op # "loadPosts") =>
                       ev \in {<<>>, <<"onLoadingStart", "fetch">>}]_vars
    /\ [](~Loading => loadingIndicator # "block")
    /\ (loadingIndicator = "block" ~> loadingIndicator = "none")
    /\ (Loading ~> ~Loading)

\* a list call was answered 500: onError, then onLoadingEnd; nothing is in
\* flight and the indicator is hidden
C30_Witness ==
    /\ calls = <<>>
    /\ loadingIndicator = "none"
    /\ \E i \in Where(emitted, "onError"), j \in Where(emitted, "onLoadingEnd") :
          /\ i < j
          /\ emitted[i].op = "loadPosts"
          /\ emitted[i].data.msg.status = 500
    /\ Where(emitted, "onPostsLoaded") = {}

\* C31: in a run in which createPost, updatePost or deletePost throws, the
\* view's showError is called exactly twice, both times with the message
\* thrown: first by the controller's onError handler, right at the model's
\* onError notification and before the operation throws, and then by the
\* catch of the intent handler, after the throw.
C31_ErrorShownTwice ==
    [][pc' = pc =>
          \A o \in DOMAIN SuccessOf :
              Has(emitted', "throw", o) =>
                  /\ Cardinality(Where(emitted', "view.showError")) = 2
                  /\ \E e \in Where(emitted', "onError"),
                        t \in Where(emitted', "throw"),
                        a, b \in Where(emitted', "view.showError") :
                          /\ emitted'[e].op = o
                          /\ emitted'[t].op = o
                          /\ a = e + 1
                          /\ a < t
                          /\ t < b
                          /\ emitted'[e].data.msg # NoMsg
                          /\ emitted'[a].data.msg = emitted'[e].data.msg
                          /\ emitted'[t].data.msg = emitted'[e].data.msg
                          /\ emitted'[b].data.msg = emitted'[e].data.msg]_vars

\* a delete was answered 404: 'Not found' was shown by the onError handler
\* and again by handlePostDelete's catch
C31_Witness ==
    /\ Has(emitted, "throw", "deletePost")
    /\ Cardinality({i \in Where(emitted, "view.showError") :
                       emitted[i].data.msg = Message("Not found")}) = 2

====
